---- MODULE Spec2Model ----
(***************************************************************************)
(* Model of mcp-communicator-telegram (src/src/index.ts): the Telegram     *)
(* bot initialisation, the four MCP tools (ask_user, notify_user,          *)
(* send_file, zip_project) and the inbound-message handler that correlates *)
(* replies with pending questions.                                         *)
(*                                                                         *)
(* Texts are sequences of one-character strings so that the marker scan    *)
(* of handleMessage is computed character by character.  A JavaScript      *)
(* value that may be null/undefined is a record [isNull, s].               *)
(***************************************************************************)
EXTENDS Integers, Sequences, FiniteSets, TLC

VARIABLES
    mainPc,            \* position of main(): "start", "getMe", "running", "exited"
    bot,               \* module variable `bot`: FALSE is null, TRUE is a TelegramBot
    success,           \* result of initializeBot(): "none", "true", "false"
    pendingQuestions,  \* Map<string, resolver>: function id -> ask_user call owning the resolver
    lastQuestionId,    \* string | null
    asks,              \* the ask_user invocations, one record per call
    log,               \* what the last run of handleMessage logged
    notify,            \* the notify_user invocation
    sendFile,          \* the send_file invocation
    zips,              \* the zip_project invocations
    files              \* the file system: per directory, the <name>-project.zip artifact

vars == <<mainPc, bot, success, pendingQuestions, lastQuestionId, asks, log,
          notify, sendFile, zips, files>>

-----------------------------------------------------------------------------
(* Bounds *)

MaxAsks == 2           \* ask_user calls per run
MaxZips == 2           \* zip_project calls per run

-----------------------------------------------------------------------------
(* JavaScript values *)

Null == [isNull |-> TRUE, s |-> <<>>]
Str(s) == [isNull |-> FALSE, s |-> s]

\* JavaScript truthiness of a string | null | undefined value
Truthy(v) == ~v.isNull /\ v.s /= <<>>

LF == "\n"

\* the character class [a-z0-9] restricted to the characters of the model
TokenChars == {"a", "b"}

-----------------------------------------------------------------------------
(* Configuration *)

\* CHAT_ID of the environment, a string
validatedChatId == <<"4", "2">>

Digit(d) == CASE d = 0 -> "0" [] d = 1 -> "1" [] d = 2 -> "2" [] d = 3 -> "3"
              [] d = 4 -> "4" [] d = 5 -> "5" [] d = 6 -> "6" [] d = 7 -> "7"
              [] d = 8 -> "8" [] d = 9 -> "9"

RECURSIVE NatToString(_)
NatToString(n) == IF n < 10 THEN <<Digit(n)>>
                  ELSE NatToString(n \div 10) \o <<Digit(n % 10)>>

\* Number.prototype.toString() of an integer chat id
toString(n) == IF n < 0 THEN <<"-">> \o NatToString(-n) ELSE NatToString(n)

-----------------------------------------------------------------------------
(* Inputs *)

\* values of Math.random().toString(36).substring(7): a possibly empty
\* string over [0-9a-z]
QuestionIds == {<<>>, <<"a">>, <<"b">>}

\* chat ids of inbound messages (private chats are positive, groups negative)
ChatIds == {42, -42}

\* `#${questionId}\n${question}`
Compose(questionId, question) == <<"#">> \o questionId \o <<LF>> \o question

\* msg.reply_to_message?.text: no replied-to message, one without text, or
\* the text of a message of the chat: a question sent by ask_user, or another
\* message that carries a marker
ReplyTexts ==
    {Null, Str(<<>>)}
    \cup {Str(Compose(i, <<"X">>)) : i \in QuestionIds}
    \cup {Str(Compose(<<>>, <<"#", "b", LF>>)),
          Str(Compose(<<"a">>, <<"#", "b", LF>>)),
          Str(<<"#", "b", "a", LF>>)}

\* the inbound messages: the answers (configured chat, non-empty text, any
\* replied-to text), messages of another chat and messages without text
Messages ==
    [chatId : {42}, text : {Str(<<"A">>), Str(<<"B">>)}, replyText : ReplyTexts]
    \cup [chatId : {-42}, text : {Str(<<"A">>)},
          replyText : {Null, Str(Compose(<<"a">>, <<"X">>)),
                       Str(Compose(<<"b">>, <<"X">>))}]
    \cup [chatId : {42}, text : {Null, Str(<<>>)},
          replyText : {Null, Str(Compose(<<"a">>, <<"X">>))}]

\* the last run of handleMessage: the branch it ended in ("rejected" is the
\* console.log of line 45, "resolved" of line 71, "unmatched" of line 73) and
\* whether the question id came from the replied-to text (line 62)
NoLog == [branch |-> "none", fromReply |-> FALSE]

-----------------------------------------------------------------------------
(* The marker scan: text.match(/#([a-z0-9]+)\n/) *)

\* end of the longest run of token characters starting at position i
RECURSIVE TokenEnd(_, _)
TokenEnd(text, i) ==
    IF i <= Len(text) /\ text[i] \in TokenChars THEN TokenEnd(text, i + 1) ELSE i

\* the pattern matches at position i: '#', one or more token characters, '\n'
MatchesAt(text, i) ==
    /\ text[i] = "#"
    /\ TokenEnd(text, i + 1) > i + 1
    /\ TokenEnd(text, i + 1) <= Len(text)
    /\ text[TokenEnd(text, i + 1)] = LF

MatchPositions(text) == {i \in 1..Len(text) : MatchesAt(text, i)}

\* match[1] of the leftmost match, or Null when there is no match
Match(text) ==
    IF MatchPositions(text) = {} THEN Null
    ELSE LET i == CHOOSE p \in MatchPositions(text) :
                      \A r \in MatchPositions(text) : p <= r
         IN  Str(SubSeq(text, i + 1, TokenEnd(text, i + 1) - 1))

-----------------------------------------------------------------------------
(* Files and sizes *)

\* a size in bytes is mib * 2^20 + rem with rem < 2^20, so that sizes around
\* 2^31 are compared exactly
Size(mib, rem) == [mib |-> mib, rem |-> rem]

\* const TWO_GB = 2 * 1024 * 1024 * 1024 (bytes)
TWO_GB == Size(2 * 1024, 0)

\* a > b on sizes
GreaterThan(a, b) == a.mib > b.mib \/ (a.mib = b.mib /\ a.rem > b.rem)

\* sizes of the archives the archiver produces: 1 MiB, 2 GiB, 2 GiB + 1, 3 GiB
ArtifactSizes == {Size(1, 0), Size(2048, 0), Size(2048, 1), Size(3072, 0)}

\* the `directory` argument of zip_project (process.cwd() when absent)
Directories == {"projA", "projB"}

NoFile == [exists |-> FALSE, size |-> Size(0, 0)]

IdleZip == [pc |-> "idle", directory |-> "projA", statSize |-> Size(0, 0),
            sent |-> FALSE, error |-> "none"]

-----------------------------------------------------------------------------
(* Initial state: the module has been loaded, main() has not run yet *)

\* an ask_user call: pc is "idle", "sending" (sendMessage awaited, the
\* question not yet in the chat), "delivered" (sendMessage awaited, the
\* question in the chat), "waiting" (the response promise awaited),
\* "returned" or "failed"
IdleAsk == [pc |-> "idle", questionId |-> <<>>, response |-> Null,
            resolverCalls |-> 0, error |-> "none"]

Init ==
    /\ mainPc = "start"
    /\ bot = FALSE
    /\ success = "none"
    /\ pendingQuestions = <<>>
    /\ lastQuestionId = Null
    /\ asks = [c \in 1..MaxAsks |-> IdleAsk]
    /\ log = NoLog
    /\ notify = "idle"
    /\ sendFile = "idle"
    /\ zips = [z \in 1..MaxZips |-> IdleZip]
    /\ files = [d \in Directories |-> NoFile]

-----------------------------------------------------------------------------
(* main() and initializeBot() *)

\* MainContinue without the exit: main() goes on after a failed initializeBot()
MainContinueNoExit(ok) ==
    /\ success' = IF ok THEN "true" ELSE "false"
    /\ mainPc' = "running"

\* main() after initializeBot() has returned: exit on failure, otherwise
\* register the tools and connect the transport
MainContinue(ok) ==
    /\ success' = IF ok THEN "true" ELSE "false"
    /\ mainPc' = IF ok THEN "running" ELSE "exited"

\* initializeBot() up to its await: the constructor starts polling and the
\* message handler is registered; a throw is caught and returns false
InitializeBot ==
    /\ mainPc = "start"
    /\ \E constructed \in BOOLEAN :
          IF constructed
          THEN /\ bot' = TRUE
               /\ mainPc' = "getMe"
               /\ UNCHANGED success
          ELSE /\ MainContinue(FALSE)
               /\ UNCHANGED bot
    /\ UNCHANGED <<pendingQuestions, lastQuestionId, asks, log, notify,
                   sendFile, zips, files>>

\* await bot.getMe() settles; main() continues in the same turn
GetMe ==
    /\ mainPc = "getMe"
    /\ \E resolved \in BOOLEAN : MainContinue(resolved)
    /\ UNCHANGED <<bot, pendingQuestions, lastQuestionId, asks, log, notify,
                   sendFile, zips, files>>

\* the SIGINT handler registered by initializeBot(): process.exit(0)
Sigint ==
    /\ mainPc = "running"
    /\ mainPc' = "exited"
    /\ UNCHANGED <<bot, success, pendingQuestions, lastQuestionId, asks, log,
                   notify, sendFile, zips, files>>

-----------------------------------------------------------------------------
(* handleMessage *)

\* msg.chat.id.toString(), tabulated over the chat ids of the model
ChatIdString == [c \in ChatIds |-> toString(c)]

\* Rejected without the comparison of the chat id
RejectedTextOnly(m) == ~Truthy(m.text)

\* the first check of handleMessage
Rejected(m) == ChatIdString[m.chatId] /= validatedChatId \/ ~Truthy(m.text)

\* the result of the marker scan, tabulated over the replied-to texts of the
\* model: match[1], or null without a replied-to text or without a match
ReplyMatch == [r \in ReplyTexts |-> IF Truthy(r) THEN Match(r.s) ELSE Null]

\* the question id taken from the replied-to text, null if there is none
FromReply(m) == ReplyMatch[m.replyText]

\* TargetId that also falls back to lastQuestionId when the id from the reply
\* is not pending
TargetIdPendingOnly(m) ==
    IF Truthy(FromReply(m)) /\ FromReply(m).s \in DOMAIN pendingQuestions
    THEN FromReply(m)
    ELSE lastQuestionId

\* the question id handleMessage looks up: from the reply, else lastQuestionId
TargetId(m) == IF Truthy(FromReply(m)) THEN FromReply(m) ELSE lastQuestionId

\* MapDelete that leaves the entry in the map
MapDeleteNothing(map, id) == map

\* MapDelete that empties the map
MapDeleteAll(map, id) == <<>>

\* pendingQuestions.delete(id)
MapDelete(map, id) == [k \in DOMAIN map \ {id} |-> map[k]]

\* pendingQuestions.set(id, resolver)
MapSet(map, id, resolver) ==
    [k \in DOMAIN map \cup {id} |-> IF k = id THEN resolver ELSE map[k]]

\* resolver(text): settles the promise of an ask_user call, which returns the
\* text; a promise that is already settled keeps its value
InvokeResolver(a, text) ==
    [a EXCEPT !.resolverCalls = @ + 1,
              !.pc = "returned",
              !.response = IF a.pc = "waiting" THEN text ELSE @]

\* Resolve that leaves the entry of the resolved question in the map
ResolveKeepEntry(questionId, text) ==
    /\ asks' = [asks EXCEPT ![pendingQuestions[questionId]] =
                                InvokeResolver(@, text)]
    /\ pendingQuestions' = pendingQuestions
    /\ lastQuestionId' = Null

\* what handleMessage does once it has matched a pending question
Resolve(questionId, text) ==
    /\ asks' = [asks EXCEPT ![pendingQuestions[questionId]] =
                                InvokeResolver(@, text)]
    /\ pendingQuestions' = MapDelete(pendingQuestions, questionId)
    /\ lastQuestionId' = Null

HandleMessage(m) ==
    /\ bot = TRUE
    /\ mainPc \in {"getMe", "running"}
    /\ IF Rejected(m)
       THEN /\ log' = [branch |-> "rejected", fromReply |-> FALSE]
            /\ UNCHANGED <<pendingQuestions, lastQuestionId, asks>>
       ELSE LET questionId == TargetId(m)
            IN  IF Truthy(questionId) /\ questionId.s \in DOMAIN pendingQuestions
                THEN /\ log' = [branch |-> "resolved",
                                fromReply |-> Truthy(FromReply(m))]
                     /\ Resolve(questionId.s, m.text)
                ELSE /\ log' = [branch |-> "unmatched",
                                fromReply |-> Truthy(FromReply(m))]
                     /\ UNCHANGED <<pendingQuestions, lastQuestionId, asks>>
    /\ UNCHANGED <<mainPc, bot, success, notify, sendFile, zips, files>>

-----------------------------------------------------------------------------
(* ask_user *)

\* the handler up to `await bot.sendMessage(...)`; calls are numbered in the
\* order in which they are issued
AskUser(c) ==
    /\ mainPc = "running"
    /\ asks[c].pc = "idle"
    /\ \A d \in 1..(c - 1) : asks[d].pc /= "idle"
    /\ \E questionId \in QuestionIds :
          IF ~bot
          THEN /\ asks' = [asks EXCEPT ![c] =
                     [@ EXCEPT !.pc = "failed",
                               !.error = "Bot not initialized"]]
               /\ UNCHANGED lastQuestionId
          ELSE /\ asks' = [asks EXCEPT ![c] =
                     [@ EXCEPT !.pc = "sending", !.questionId = questionId]]
               /\ lastQuestionId' = Str(questionId)
    /\ UNCHANGED <<mainPc, bot, success, pendingQuestions, log, notify,
                   sendFile, zips, files>>

\* the question reaches the chat while sendMessage is awaited
Deliver(c) ==
    /\ mainPc = "running"
    /\ asks[c].pc = "sending"
    /\ asks' = [asks EXCEPT ![c].pc = "delivered"]
    /\ UNCHANGED <<mainPc, bot, success, pendingQuestions, lastQuestionId, log,
                   notify, sendFile, zips, files>>

\* what ask_user does when the awaited sendMessage has resolved
Register(c) ==
    /\ pendingQuestions' = MapSet(pendingQuestions, asks[c].questionId, c)
    /\ asks' = [asks EXCEPT ![c].pc = "waiting"]

\* await bot.sendMessage(...) resolves: the resolver is registered
SendMessageResolved(c) ==
    /\ mainPc = "running"
    /\ asks[c].pc = "delivered"
    /\ Register(c)
    /\ UNCHANGED <<mainPc, bot, success, lastQuestionId, log, notify,
                   sendFile, zips, files>>

\* SendMessageRejected of an ask_user that registers the resolver before it
\* awaits the send and leaves the entry behind when the send fails
SendMessageRejectedRegistered(c) ==
    /\ mainPc = "running"
    /\ asks[c].pc \in {"sending", "delivered"}
    /\ pendingQuestions' = MapSet(pendingQuestions, asks[c].questionId, c)
    /\ asks' = [asks EXCEPT ![c].pc = "failed", ![c].error = "send"]
    /\ UNCHANGED <<mainPc, bot, success, lastQuestionId, log, notify, sendFile,
                   zips, files>>

\* await bot.sendMessage(...) rejects: ask_user throws
SendMessageRejected(c) ==
    /\ mainPc = "running"
    /\ asks[c].pc \in {"sending", "delivered"}
    /\ asks' = [asks EXCEPT ![c].pc = "failed", ![c].error = "send"]
    /\ UNCHANGED <<mainPc, bot, success, pendingQuestions, lastQuestionId, log,
                   notify, sendFile, zips, files>>

-----------------------------------------------------------------------------
(* notify_user and send_file *)

\* the handler up to `await bot.sendMessage(...)`
NotifyUser ==
    /\ mainPc = "running"
    /\ notify = "idle"
    /\ notify' = IF ~bot THEN "failed" ELSE "sending"
    /\ UNCHANGED <<mainPc, bot, success, pendingQuestions, lastQuestionId, asks,
                   log, sendFile, zips, files>>

NotifySettled ==
    /\ mainPc = "running"
    /\ notify = "sending"
    /\ \E resolved \in BOOLEAN :
          notify' = IF resolved THEN "returned" ELSE "failed"
    /\ UNCHANGED <<mainPc, bot, success, pendingQuestions, lastQuestionId, asks,
                   log, sendFile, zips, files>>

\* the handler up to `await bot.sendDocument(...)`
SendFile ==
    /\ mainPc = "running"
    /\ sendFile = "idle"
    /\ sendFile' = IF ~bot THEN "failed" ELSE "sending"
    /\ UNCHANGED <<mainPc, bot, success, pendingQuestions, lastQuestionId, asks,
                   log, notify, zips, files>>

SendFileSettled ==
    /\ mainPc = "running"
    /\ sendFile = "sending"
    /\ \E resolved \in BOOLEAN :
          sendFile' = IF resolved THEN "returned" ELSE "failed"
    /\ UNCHANGED <<mainPc, bot, success, pendingQuestions, lastQuestionId, asks,
                   log, notify, zips, files>>

-----------------------------------------------------------------------------
(* zip_project and zipProject *)

\* fs.unlinkSync(path)
Unlink(fs, directory) == [fs EXCEPT ![directory] = NoFile]

\* the handler up to the await inside zipProject(): the output stream creates
\* (or truncates) <directory>/<name>-project.zip
ZipProject(z) ==
    /\ mainPc = "running"
    /\ zips[z].pc = "idle"
    /\ \A y \in 1..(z - 1) : zips[y].pc /= "idle"
    /\ \E directory \in Directories :
          IF ~bot
          THEN /\ zips' = [zips EXCEPT ![z] =
                     [@ EXCEPT !.pc = "failed", !.directory = directory,
                               !.error = "Bot not initialized"]]
               /\ UNCHANGED files
          ELSE /\ zips' = [zips EXCEPT ![z] =
                     [@ EXCEPT !.pc = "archiving", !.directory = directory]]
               /\ files' = [files EXCEPT ![directory] =
                               [exists |-> TRUE, size |-> Size(0, 0)]]
    /\ UNCHANGED <<mainPc, bot, success, pendingQuestions, lastQuestionId, asks,
                   log, notify, sendFile>>

\* ExceedsLimit with >= in place of >
ExceedsLimitInclusive(size) == ~GreaterThan(TWO_GB, size)

\* stats.size > TWO_GB
ExceedsLimit(size) == GreaterThan(size, TWO_GB)

\* zipProject() after the archive has been written: statSync, the size check
\* and, when the artifact is returned, the call of sendDocument
AfterArchive(z, fs) ==
    LET directory == zips[z].directory
    IN  IF ~fs[directory].exists
        THEN /\ zips' = [zips EXCEPT ![z].pc = "failed", ![z].error = "ENOENT"]
             /\ files' = fs
        ELSE IF ExceedsLimit(fs[directory].size)
        THEN /\ zips' = [zips EXCEPT ![z].pc = "failed",
                                     ![z].statSize = fs[directory].size,
                                     ![z].error = "File size exceeds 2GB limit"]
             /\ files' = Unlink(fs, directory)
        ELSE /\ zips' = [zips EXCEPT ![z].pc = "sending",
                                     ![z].statSize = fs[directory].size,
                                     ![z].sent = TRUE]
             /\ files' = fs

\* the promise inside zipProject() settles: the archiver fails, or the output
\* stream closes with the archive written to it
ArchiveSettled(z) ==
    /\ mainPc = "running"
    /\ zips[z].pc = "archiving"
    /\ \/ /\ zips' = [zips EXCEPT ![z].pc = "failed", ![z].error = "archive"]
          /\ UNCHANGED files
       \/ \E size \in ArtifactSizes :
             AfterArchive(z, IF files[zips[z].directory].exists
                             THEN [files EXCEPT ![zips[z].directory].size = size]
                             ELSE files)
    /\ UNCHANGED <<mainPc, bot, success, pendingQuestions, lastQuestionId, asks,
                   log, notify, sendFile>>

\* Cleanup that runs only after a successful send
CleanupOnSuccess(resolved, directory) ==
    files' = IF resolved /\ files[directory].exists
             THEN Unlink(files, directory) ELSE files

\* the finally block of zip_project: unlink the artifact if it exists
Cleanup(resolved, directory) ==
    files' = IF files[directory].exists THEN Unlink(files, directory) ELSE files

\* await bot.sendDocument(...) settles, then the finally block runs
SendDocumentSettled(z) ==
    /\ mainPc = "running"
    /\ zips[z].pc = "sending"
    /\ \E resolved \in BOOLEAN :
          /\ zips' = [zips EXCEPT
                         ![z].pc = IF resolved THEN "returned" ELSE "failed",
                         ![z].error = IF resolved THEN "none" ELSE "send"]
          /\ Cleanup(resolved, zips[z].directory)
    /\ UNCHANGED <<mainPc, bot, success, pendingQuestions, lastQuestionId, asks,
                   log, notify, sendFile>>

-----------------------------------------------------------------------------
(* Specifications *)

\* the correlation engine: main(), ask_user and handleMessage
Next ==
    \/ InitializeBot
    \/ GetMe
    \/ Sigint
    \/ \E c \in 1..MaxAsks : AskUser(c)
    \/ \E c \in 1..MaxAsks : Deliver(c)
    \/ \E c \in 1..MaxAsks : SendMessageResolved(c)
    \/ \E c \in 1..MaxAsks : SendMessageRejected(c)
    \/ \E m \in Messages : HandleMessage(m)

Spec == Init /\ [][Next]_vars

\* the tool dispatcher: main() and the four tool handlers, one ask_user call
\* and one zip_project call
NextTools ==
    \/ InitializeBot
    \/ GetMe
    \/ Sigint
    \/ AskUser(1)
    \/ Deliver(1)
    \/ SendMessageResolved(1)
    \/ SendMessageRejected(1)
    \/ NotifyUser
    \/ NotifySettled
    \/ SendFile
    \/ SendFileSettled
    \/ ZipProject(1)
    \/ ArchiveSettled(1)
    \/ SendDocumentSettled(1)

SpecTools == Init /\ [][NextTools]_vars

\* zip_project: main() and concurrent zip_project calls
NextZip ==
    \/ InitializeBot
    \/ GetMe
    \/ Sigint
    \/ \E z \in 1..MaxZips : ZipProject(z)
    \/ \E z \in 1..MaxZips : ArchiveSettled(z)
    \/ \E z \in 1..MaxZips : SendDocumentSettled(z)

SpecZip == Init /\ [][NextZip]_vars

-----------------------------------------------------------------------------
(* Vocabulary of the properties *)

\* the message comes from the configured chat
FromAuthorizedChat(m) == toString(m.chatId) = validatedChatId

\* the message has a non-empty text
HasText(m) == ~m.text.isNull /\ Len(m.text.s) > 0

\* the message replies to nothing, or to a message without text
NoRepliedToText(m) == m.replyText.isNull \/ Len(m.replyText.s) = 0

\* text contains '#', the id and a line break, in a row
ContainsMarker(text, id) ==
    \E i \in 1..Len(text) :
        /\ i + Len(id) + 1 <= Len(text)
        /\ SubSeq(text, i, i + Len(id) + 1) = <<"#">> \o id \o <<LF>>

\* the first place of text where '#', some token characters and a line break
\* stand in a row holds exactly the id
FirstMarkerIs(text, id) ==
    /\ Len(id) > 0
    /\ \E i \in 1..Len(text) :
          /\ i + Len(id) + 1 <= Len(text)
          /\ SubSeq(text, i, i + Len(id) + 1) = <<"#">> \o id \o <<LF>>
          /\ \A j \in 1..(i - 1) : ~MatchesAt(text, j)

\* the messages that pass the first check of the claims: from the configured
\* chat and with a non-empty text
Answers == {m \in Messages : FromAuthorizedChat(m) /\ HasText(m)}

\* the answers without replied-to text
PlainAnswers == {m \in Answers : NoRepliedToText(m)}

\* per id, the answers whose replied-to text contains the id's marker
AnswersContaining ==
    [q \in QuestionIds |->
        {m \in Answers : ~m.replyText.isNull /\ ContainsMarker(m.replyText.s, q)}]

\* per id, the answers whose replied-to text has the id's marker first
AnswersQuoting ==
    [q \in QuestionIds |->
        {m \in Answers : ~m.replyText.isNull /\ FirstMarkerIs(m.replyText.s, q)}]

\* the messages from another chat, or without text, or with an empty text
NonAnswers == {m \in Messages : ~FromAuthorizedChat(m) \/ ~HasText(m)}

\* this step invokes the resolver of call c with the text, call c returns the
\* text, and no other call changes
ResolvesOnly(c, text) ==
    /\ asks'[c].pc = "returned"
    /\ asks'[c].response = text
    /\ asks'[c].resolverCalls = asks[c].resolverCalls + 1
    /\ \A d \in 1..MaxAsks : d /= c => asks'[d] = asks[d]

\* this step invokes no resolver and changes nothing of the correlation state
Discards == UNCHANGED <<asks, pendingQuestions, lastQuestionId>>

-----------------------------------------------------------------------------
(* C1 - threaded correlation *)

\* C1 as stated: whenever q is a key of pendingQuestions, an authorized
\* non-empty message whose replied-to text contains '#q' and a line break
\* resolves the caller registered under q with the message text.
ThreadedCorrelationAnyMarker ==
    [][\A q \in DOMAIN pendingQuestions : \A m \in AnswersContaining[q] :
          HandleMessage(m) => ResolvesOnly(pendingQuestions[q], m.text)]_vars

-----------------------------------------------------------------------------
(* C2 - fallback correlation *)

\* C2 as stated: whenever exactly one question is pending, an authorized
\* non-empty message without replied-to text resolves that question's caller
\* with the message text.
FallbackCorrelationAlways ==
    [][\A q \in DOMAIN pendingQuestions : \A m \in PlainAnswers :
          (DOMAIN pendingQuestions = {q} /\ HandleMessage(m))
          => ResolvesOnly(pendingQuestions[q], m.text)]_vars

-----------------------------------------------------------------------------
(* C3 - fallback ambiguity *)

\* calls c and d are both registered and waiting, c issued before d and d
\* the last call issued
BothPending(c, d) ==
    /\ c < d
    /\ asks[c].pc = "waiting" /\ asks[c].questionId \in DOMAIN pendingQuestions
    /\ asks[d].pc = "waiting" /\ asks[d].questionId \in DOMAIN pendingQuestions
    /\ \A e \in (d + 1)..MaxAsks : asks[e].pc = "idle"

\* C3 as stated: when q1 then q2 were issued and both are pending, an
\* authorized non-empty message without replied-to text resolves q2 only; q1
\* is not resolved and stays a key of pendingQuestions.
FallbackAmbiguity ==
    [][\A c, d \in 1..MaxAsks : \A m \in PlainAnswers :
          (BothPending(c, d) /\ HandleMessage(m))
          => /\ ResolvesOnly(d, m.text)
             /\ asks[c].questionId \in DOMAIN pendingQuestions']_vars

-----------------------------------------------------------------------------
(* C4 - at-most-one resolution *)

\* question q was asked by a call that has been resolved
WasResolved(q) ==
    \E c \in 1..MaxAsks : asks[c].pc = "returned" /\ asks[c].questionId = q

\* after this step no resolver has been invoked more than once
ResolvedAtMostOnce == \A c \in 1..MaxAsks : asks'[c].resolverCalls <= 1

\* C4 as stated: no resolver is invoked more than once, and once a question
\* has been resolved a later message quoting its id invokes no resolver and
\* is discarded.
AtMostOneResolutionEver ==
    [][/\ ResolvedAtMostOnce
       /\ \A q \in QuestionIds :
             WasResolved(q)
             => \/ Discards
                \/ \A m \in AnswersQuoting[q] : ~HandleMessage(m)]_vars

\* C4 amended: no resolver is invoked more than once, and once a question has
\* been resolved a later message quoting its id invokes no resolver and is
\* discarded unless another ask_user call has registered a resolver under
\* the same id since, in which case it invokes only that call's resolver.
AtMostOneResolution ==
    [][/\ ResolvedAtMostOnce
       /\ \A q \in QuestionIds :
             WasResolved(q)
             => IF q \in DOMAIN pendingQuestions
                THEN \A m \in AnswersQuoting[q] :
                        HandleMessage(m)
                        => /\ asks[pendingQuestions[q]].pc = "waiting"
                           /\ ResolvesOnly(pendingQuestions[q], m.text)
                ELSE \/ Discards
                     \/ \A m \in AnswersQuoting[q] : ~HandleMessage(m)]_vars

\* a reply that quoted the id of a resolved question was discarded
AtMostOneResolutionWitness ==
    /\ log.branch = "unmatched" /\ log.fromReply
    /\ \E c \in 1..MaxAsks :
          /\ asks[c].pc = "returned" /\ asks[c].resolverCalls = 1
          /\ asks[c].questionId \notin DOMAIN pendingQuestions
          /\ lastQuestionId = Null

-----------------------------------------------------------------------------
(* C5 - rejection is a no-op *)

\* C5: a message from another chat than CHAT_ID, or whose text is absent or
\* empty, invokes no resolver and leaves pendingQuestions and lastQuestionId
\* unchanged, whatever its replied-to text and whatever is pending.
RejectionIsNoOp ==
    [][\/ Discards /\ log'.branch = "rejected"
       \/ \A m \in NonAnswers : ~HandleMessage(m)]_vars

\* a message was rejected while a question was pending and named by
\* lastQuestionId
RejectionIsNoOpWitness ==
    /\ log.branch = "rejected"
    /\ \E c \in 1..MaxAsks :
          /\ asks[c].pc = "waiting"
          /\ lastQuestionId = Str(asks[c].questionId)
          /\ asks[c].questionId \in DOMAIN pendingQuestions

-----------------------------------------------------------------------------
(* C6 - uniqueness of the correlation ids *)

\* call c has generated a question id
HasId(c) == asks[c].pc /= "idle" /\ asks[c].error /= "Bot not initialized"

\* C6 as stated: the ids generated by the ask_user calls are pairwise
\* distinct, so that registering a question never overwrites the resolver of
\* another one.
UniqueIds ==
    \A c, d \in 1..MaxAsks :
        (c /= d /\ HasId(c) /\ HasId(d)) => asks[c].questionId /= asks[d].questionId

-----------------------------------------------------------------------------
(* C7 - zip_project removes the artifact *)

\* this step ends call z of zip_project after its archive has been written
FinishesAfterArchive(z) ==
    /\ zips[z].pc \in {"archiving", "sending"}
    /\ zips'[z].pc \in {"returned", "failed"}
    /\ zips'[z].error /= "archive"

\* C7: when zip_project finishes after the archive was produced, the artifact
\* file does not exist, whether the send succeeded or failed, and a failed
\* send ends the call with an error.
ZipCleanup ==
    [][\A z \in 1..MaxZips :
          FinishesAfterArchive(z)
          => /\ ~files'[zips[z].directory].exists
             /\ zips[z].pc = "sending"
                => \/ zips'[z].pc = "returned" /\ zips'[z].error = "none"
                   \/ zips'[z].pc = "failed" /\ zips'[z].error = "send"]_vars

\* a call whose send failed has ended with the error and the artifact is gone
ZipCleanupWitness ==
    \E z \in 1..MaxZips :
        /\ zips[z].pc = "failed" /\ zips[z].error = "send" /\ zips[z].sent
        /\ ~files[zips[z].directory].exists

-----------------------------------------------------------------------------
(* C8 - archive size enforcement *)

\* the size is greater than 2 GiB = 2048 MiB
Over2GiB(size) == size.mib > 2048 \/ (size.mib = 2048 /\ size.rem > 0)

SizeLimitError == "File size exceeds 2GB limit"

\* C8: when the artifact is larger than 2 GiB, zip_project fails with the
\* size-limit error, does not send the artifact, and the artifact file is
\* deleted when the error is raised; an artifact of at most 2 GiB raises no
\* size-limit error and is sent.
ArchiveSizeEnforcement ==
    [][\A z \in 1..MaxZips :
          /\ ( /\ zips[z].pc = "archiving"
               /\ zips'[z].pc /= "archiving"
               /\ zips'[z].error \notin {"archive", "ENOENT"} )
             => IF Over2GiB(zips'[z].statSize)
                THEN /\ zips'[z].pc = "failed"
                     /\ zips'[z].error = SizeLimitError
                     /\ ~zips'[z].sent
                     /\ ~files'[zips[z].directory].exists
                ELSE /\ zips'[z].pc = "sending"
                     /\ zips'[z].error = "none"
                     /\ zips'[z].sent
                     /\ files'[zips[z].directory].exists
          /\ zips[z].error = SizeLimitError => zips'[z] = zips[z]]_vars

\* an artifact of 3 GiB made the call fail with the size-limit error, unsent,
\* and no artifact file is left
ArchiveSizeEnforcementWitness ==
    \E z \in 1..MaxZips :
        /\ zips[z].pc = "failed" /\ zips[z].error = SizeLimitError
        /\ zips[z].statSize = Size(3072, 0)
        /\ ~zips[z].sent
        /\ ~files[zips[z].directory].exists

-----------------------------------------------------------------------------
(* C9 - initialization failure is fatal *)

\* some tool handler has run
SomeToolRan ==
    \/ \E c \in 1..MaxAsks : asks[c].pc /= "idle"
    \/ notify /= "idle"
    \/ sendFile /= "idle"
    \/ \E z \in 1..MaxZips : zips[z].pc /= "idle"

\* C9: when initializeBot() returns false the process exits, and no tool
\* handler (ask_user, notify_user, send_file, zip_project) ever runs unless
\* the bot was initialized successfully.
InitFailureIsFatal ==
    /\ success = "false" => mainPc = "exited"
    /\ SomeToolRan => success = "true" /\ bot = TRUE

\* getMe() failed after the bot was constructed: the process has exited and
\* no tool has run
InitFailureIsFatalWitness ==
    /\ success = "false" /\ bot = TRUE /\ mainPc = "exited"
    /\ ~SomeToolRan

-----------------------------------------------------------------------------
(* C10 - ask registers before it sends *)

\* C10 as stated: the entry is inserted before the text is sent, so every
\* question that is in the chat and still awaits its answer is a key of
\* pendingQuestions.
RegisteredBeforeSent ==
    \A c \in 1..MaxAsks :
        asks[c].pc \in {"delivered", "waiting"}
        => asks[c].questionId \in DOMAIN pendingQuestions

-----------------------------------------------------------------------------
(* C11 - lastQuestionId is cleared only by its own question *)

\* C11 as stated: when a message resolves question q by its quoted marker
\* while lastQuestionId holds another id q2 (one the fallback can use, a
\* non-empty string), lastQuestionId holds q2 afterwards too.
LastQuestionIdKept ==
    [][\A q \in DOMAIN pendingQuestions :
          (Truthy(lastQuestionId) /\ lastQuestionId.s /= q)
          => \A m \in AnswersQuoting[q] :
                HandleMessage(m) => lastQuestionId' = lastQuestionId]_vars

-----------------------------------------------------------------------------
(* C12 - what lastQuestionId names *)

\* an inbound message can be handled: the bot polls and the process runs
HandlerEnabled == bot = TRUE /\ mainPc \in {"getMe", "running"}

\* C12 as stated: whenever a message can be handled, lastQuestionId is null
\* or the id of a question that has been sent, is not resolved yet and is a
\* key of pendingQuestions.
LastQuestionIdNamesPending ==
    HandlerEnabled
    => \/ lastQuestionId.isNull
       \/ /\ lastQuestionId.s \in DOMAIN pendingQuestions
          /\ asks[pendingQuestions[lastQuestionId.s]].pc = "waiting"

-----------------------------------------------------------------------------
(* C13 - a threaded answer makes ask_user return *)

\* question bodies passed to ask_user
Questions == {<<"X">>, <<"#", "b", LF>>}

\* per id, the answers that reply to a question composed with the id
AnswersReplyingTo ==
    [q \in QuestionIds |->
        {m \in Answers :
            /\ ~m.replyText.isNull
            /\ \E question \in Questions : m.replyText.s = Compose(q, question)}]

\* the question of call c is in the chat and the call has not ended
QuestionInChat(c) == asks[c].pc \in {"delivered", "waiting"}

\* C13 as stated: when the operator answers a question that is in the chat
\* with a non-empty message quoting it, the ask_user call returns that
\* message's text. A message is handled once and only handleMessage can
\* settle the call, so the call returns the text in the step that handles the
\* message or never because of it.
ThreadedAnswerReturns ==
    [][\A c \in 1..MaxAsks :
          QuestionInChat(c)
          => \A m \in AnswersReplyingTo[asks[c].questionId] :
                HandleMessage(m)
                => asks'[c].pc = "returned" /\ asks'[c].response = m.text]_vars

-----------------------------------------------------------------------------
(* C14 - the marker round trip *)

\* C14 as stated: for every id ask_user has generated and every question
\* body, the marker scan of the composed text yields exactly the id, and the
\* handler accepts the id as a target.
MarkerRoundTrip ==
    \A c \in 1..MaxAsks :
        HasId(c)
        => \A question \in Questions :
              /\ Match(Compose(asks[c].questionId, question))
                     = Str(asks[c].questionId)
              /\ Truthy(Str(asks[c].questionId))

-----------------------------------------------------------------------------
(* C15 - one caller per matched reply *)

\* the calls whose resolver this step invokes
Invoked == {c \in 1..MaxAsks : asks'[c].resolverCalls > asks[c].resolverCalls}

\* the keys this step removes from pendingQuestions
Removed == DOMAIN pendingQuestions \ DOMAIN pendingQuestions'

\* C15: handling a message invokes at most one resolver, once, and removes at
\* most one entry of pendingQuestions; when it invokes a resolver, the entry
\* it removes is the one that held this resolver, and when it invokes none it
\* removes nothing. No other step invokes a resolver or removes an entry.
OneCallerPerReply ==
    [][/\ Cardinality(Invoked) <= 1
       /\ Cardinality(Removed) <= 1
       /\ \A c \in Invoked :
             /\ asks'[c].resolverCalls = asks[c].resolverCalls + 1
             /\ \E q \in DOMAIN pendingQuestions :
                   pendingQuestions[q] = c /\ Removed = {q}
       /\ Invoked = {} => Removed = {}
       /\ \A q \in DOMAIN pendingQuestions \ Removed :
             Invoked /= {} => pendingQuestions'[q] = pendingQuestions[q]]_vars

\* a message resolved one of two pending questions: one caller has returned,
\* the other one is still registered and waiting
OneCallerPerReplyWitness ==
    /\ log.branch = "resolved"
    /\ \E c, d \in 1..MaxAsks :
          /\ asks[c].pc = "returned" /\ asks[c].resolverCalls = 1
          /\ asks[c].questionId \notin DOMAIN pendingQuestions
          /\ asks[d].pc = "waiting" /\ asks[d].resolverCalls = 0
          /\ asks[d].questionId \in DOMAIN pendingQuestions
          /\ pendingQuestions[asks[d].questionId] = d

-----------------------------------------------------------------------------
(* C16 - unmatched messages are discarded *)

\* the target id the handler has determined is absent, or is no key of
\* pendingQuestions
NoTarget(m) ==
    \/ ~Truthy(TargetId(m))
    \/ TargetId(m).s \notin DOMAIN pendingQuestions

\* C16: an authorized non-empty message whose target id is absent or not a
\* key of pendingQuestions invokes no resolver and leaves pendingQuestions and
\* lastQuestionId unchanged; a reply whose quoted marker names an id that is
\* not pending is discarded too, whatever lastQuestionId holds.
UnmatchedDiscarded ==
    [][\/ Discards
       \/ /\ \A m \in Answers : NoTarget(m) => ~HandleMessage(m)
          /\ \A q \in QuestionIds \ DOMAIN pendingQuestions :
                \A m \in AnswersQuoting[q] : ~HandleMessage(m)]_vars

\* a reply that quoted an id that is not pending was discarded while
\* lastQuestionId named a pending question, which still waits
UnmatchedDiscardedWitness ==
    /\ log.branch = "unmatched" /\ log.fromReply
    /\ Truthy(lastQuestionId)
    /\ lastQuestionId.s \in DOMAIN pendingQuestions
    /\ asks[pendingQuestions[lastQuestionId.s]].pc = "waiting"

-----------------------------------------------------------------------------
(* C17 - the invariant of pendingQuestions *)

\* C17: every key of pendingQuestions maps to the resolver of an ask_user
\* call of that id whose resolver has not been invoked and whose caller is
\* still suspended.
PendingResolversLive ==
    \A q \in DOMAIN pendingQuestions :
        /\ asks[pendingQuestions[q]].questionId = q
        /\ asks[pendingQuestions[q]].resolverCalls = 0
        /\ asks[pendingQuestions[q]].pc = "waiting"

\* one question has been resolved and removed while another one is still a
\* key, its caller suspended
PendingResolversLiveWitness ==
    /\ pendingQuestions /= <<>>
    /\ \E c \in 1..MaxAsks : asks[c].pc = "returned" /\ asks[c].resolverCalls = 1
    /\ \E q \in DOMAIN pendingQuestions : asks[pendingQuestions[q]].pc = "waiting"

-----------------------------------------------------------------------------
(* C18 - a failed send registers nothing *)

\* C18: a step in which an ask_user call ends in an error leaves
\* pendingQuestions as it was, and no entry of pendingQuestions holds the
\* resolver of a call that has failed.
FailedAskRegistersNothing ==
    [][\A c \in 1..MaxAsks :
          asks'[c].pc = "failed"
          => /\ asks[c].pc /= "failed" => pendingQuestions' = pendingQuestions
             /\ \A q \in DOMAIN pendingQuestions' : pendingQuestions'[q] /= c]_vars

\* the send of one call has failed while the question of another call is
\* registered: the map holds that other entry only
FailedAskRegistersNothingWitness ==
    \E c, d \in 1..MaxAsks :
        /\ asks[c].pc = "failed" /\ asks[c].error = "send"
        /\ asks[d].pc = "waiting"
        /\ pendingQuestions = (asks[d].questionId :> d)

====
